---- MODULE Spec2Model ----
(***************************************************************************)
(* Model of the Live Share client: TeamsFluidClient.joinContainer (the     *)
(* container creation race) and RoleVerifier (deduplicated, polled role    *)
(* resolution).                                                            *)
(*                                                                         *)
(* Every action is one resumption of an async function: the code between   *)
(* the completion of one await and the start of the next one, which the    *)
(* single-threaded event loop runs without interleaving.                   *)
(***************************************************************************)
EXTENDS Integers, Sequences, FiniteSets, TLC

\* ------------------------------------------------------------------------
\* Bounds of the model
\* ------------------------------------------------------------------------

\* Number of concurrent joinContainer calls of one session.
NumJoins == 2

\* Number of joinContainer calls made against a service that may answer
\* anything (such a service already stands for whatever other calls do).
NumLoneJoins == 1

\* Containers one joinContainer call may create before the model stops it
\* (the code itself has no such limit).
MaxCreates == 2

\* Number of calls made to one RoleVerifier.
NumCalls == 2

\* Polling runs (cache producers) started on one RoleVerifier.
MaxRuns == 2

\* Half hours of clock time that may pass.
MaxTicks == 3

\* 'connected' events handled after the join.
NumHandlers == 2

\* Token requests made to one TeamsFluidTokenProvider.
NumFetches == 3

\* ------------------------------------------------------------------------
\* Program constants
\* ------------------------------------------------------------------------

\* TeamsFluidClient.maxContainerLookupTries
maxContainerLookupTries == 3

Joins == 1 .. NumJoins

\* containerId: string | undefined
Undefined == 0

\* The canonical ID container.attach() resolves to: one fresh ID for each
\* container, here the n-th container created by call j.
NewContainerId(j, n) == j * 10 + n

ContainerIds == { NewContainerId(j, n) : j \in Joins, n \in 1 .. MaxCreates }

\* The ID of a container attached by a client that is not one of Joins.
OtherContainerId == NewContainerId(0, 1)

\* retryAfter, in milliseconds, as the service reports it.
RetryAfterValues == {0, 50}

VARIABLES
    service,        \* which remote service the clients talk to
    mapping,        \* the service's container ID of the session, or Undefined
    accepted,       \* IDs for which setFluidContainerId answered true
    pc,             \* where each joinContainer call is suspended
    tries,          \* the `tries` argument of the running getOrCreateContainer
    containerInfo,  \* the last IFluidContainerInfo each call received
    firstBranch,    \* the branch each call took on its first lookup answer
    hasHook,        \* whether onContainerFirstCreated was supplied
    containers,     \* per call, the event log of each container it created
    result,         \* what joinContainer resolved to
    error,          \* what joinContainer rejected with
    lookups,        \* getFluidContainerId calls issued by each call
    waits,          \* timed waits started by each call
    lostRaces,      \* rejected setFluidContainerId calls of each call
    isTesting,      \* the client is configured for the local test server
    apiCalls        \* TeamsLiveAPI lookup and publish requests of each call

joinVars == << service, mapping, accepted, pc, tries, containerInfo, firstBranch,
               hasHook, containers, result, error, lookups, waits, lostRaces,
               isTesting, apiCalls >>

VARIABLES
    calls,          \* the registerClientId / getClientRoles calls made so far
    cache,          \* the entries of _registerRequestCache and _getRequestCache
    runs,           \* the polling runs (waitForResult) started so far
    now             \* the clock (new Date().getTime()), in milliseconds

roleVars == << calls, cache, runs, now >>

VARIABLES
    handlers,       \* the runs of the 'connected' handler
    roleVerifier    \* this._roleVerifier is set

connVars == << handlers, roleVerifier >>

VARIABLES
    frsToken,        \* TeamsFluidTokenProvider.frsToken
    tokenTenantId,   \* TeamsFluidTokenProvider._tenantId
    tokenDocumentId, \* TeamsFluidTokenProvider._documentId
    fetches,         \* the fetchOrdererToken / fetchStorageToken calls so far
    tokensIssued,    \* tokens TeamsLiveAPI.getFluidToken has returned
    lastSuccess      \* the arguments and token of the last call that resolved

tokenVars == << frsToken, tokenTenantId, tokenDocumentId, fetches, tokensIssued,
                lastSuccess >>

vars == << joinVars, roleVars, connVars, tokenVars >>

NoInfo == [containerState |-> "notFound", containerId |-> Undefined,
           shouldCreate |-> FALSE, retryAfter |-> 0, received |-> FALSE]

NoResult == [created |-> FALSE, container |-> Undefined, via |-> "none"]

Info(state, id, create, retry) ==
    [containerState |-> state, containerId |-> id,
     shouldCreate |-> create, retryAfter |-> retry, received |-> TRUE]

\* ------------------------------------------------------------------------
\* The remote service (the collaborators behind TeamsLiveAPI)
\* ------------------------------------------------------------------------

\* "setIfAbsent": the service keeps one mapping per session, reports it on
\* lookup and accepts a setFluidContainerId only while it has none.
\* "any": a service that may answer anything the contracts can express.
\* The variable `service` holds one of these names.

\* The bodies the service may send for livesync/v1/fluid/container/get.
GetReplies ==
    IF service = "setIfAbsent"
    THEN IF mapping # Undefined
         THEN { Info("alreadyExists", mapping, FALSE, 0) }
         ELSE { Info("notFound", Undefined, TRUE, 0) } \cup
              { Info("notFound", Undefined, FALSE, r) : r \in RetryAfterValues \ {0} }
    ELSE { Info(IF i = Undefined THEN "notFound" ELSE "alreadyExists", i, c, r) :
             i \in {Undefined, OtherContainerId, mapping},
             c \in BOOLEAN, r \in RetryAfterValues }

\* The containerState the service may send for livesync/v1/fluid/container/set.
SetReplies ==
    IF service = "setIfAbsent"
    THEN IF mapping = Undefined THEN {"added"} ELSE {"alreadyExists"}
    ELSE {"added", "alreadyExists"}

\* Mutant: the answer of the service is not looked at.
SetFluidContainerIdResultIgnored(containerState) == TRUE

\* TeamsLiveAPI.setFluidContainerId: response.containerState == ContainerState.added
SetFluidContainerIdResult(containerState) == containerState = "added"

\* ------------------------------------------------------------------------
\* TeamsFluidClient
\* ------------------------------------------------------------------------

\* Mutant: the retry test joined with "or" instead of "and".
LookupBranchOr(info, t) ==
    IF info.shouldCreate THEN "create"
    ELSE IF info.containerId # Undefined THEN "open"
    ELSE IF t < maxContainerLookupTries \/ info.retryAfter > 0 THEN "wait"
    ELSE "timeout"

\* Mutant: a lookup that names no container is taken as "create".
LookupBranchCreatesUnknown(info, t) ==
    IF info.shouldCreate \/ info.containerId = Undefined THEN "create"
    ELSE "open"

\* getOrCreateContainer: the branch taken once the lookup has returned.
LookupBranch(info, t) ==
    IF info.shouldCreate THEN "create"
    ELSE IF info.containerId # Undefined THEN "open"
    ELSE IF t < maxContainerLookupTries /\ info.retryAfter > 0 THEN "wait"
    ELSE "timeout"

Timeout == "TeamsFluidClient: timed out attempting to create or get container for current context."
Upstream == "collaborator error"
NoError == "none"

\* getFluidContainerId / setFluidContainerId of the client: the request goes
\* to TeamsLiveAPI unless the client is testing locally.
ApiCalled(j) == [apiCalls EXCEPT ![j] = IF isTesting THEN @ ELSE @ + 1]

\* Mutant: in local testing a missing ID is answered with "retry later".
LocalContainerInfoRetries(containerId) ==
    Info(IF containerId # Undefined THEN "alreadyExists" ELSE "notFound",
         containerId, FALSE, 50)

\* getFluidContainerId in local testing: the answer made from
\* getLocalTestContainerId().
LocalContainerInfo(containerId) ==
    Info(IF containerId # Undefined THEN "alreadyExists" ELSE "notFound",
         containerId, containerId = Undefined, 0)

\* What getLocalTestContainerId() may return: nothing, the ID set by
\* setLocalTestContainerId, or an ID put there from outside.
LocalTestContainerIds == {Undefined, OtherContainerId, mapping}

\* setFluidContainerId in local testing: Promise.resolve(true)
SetLocalTestContainerIdResult == TRUE

\* The container the call is working on: the last one it created.
Current(j) == Len(containers[j])

Append2(j, ev) ==
    [containers EXCEPT ![j][Current(j)] = Append(@, ev)]

\* joinContainer(schema, onContainerFirstCreated): the call up to its first
\* await, getOrCreateContainer(client, schema, 0, hook) -> getFluidContainerId().
JoinContainer(j, hook) ==
    /\ pc[j] = "idle"
    /\ pc' = [pc EXCEPT ![j] = "lookup"]
    /\ tries' = [tries EXCEPT ![j] = 0]
    /\ hasHook' = [hasHook EXCEPT ![j] = hook]
    /\ lookups' = [lookups EXCEPT ![j] = @ + 1]
    /\ apiCalls' = ApiCalled(j)
    /\ UNCHANGED << roleVars, connVars, tokenVars, service, isTesting, mapping, accepted, containerInfo, firstBranch,
                    containers, result, error, waits, lostRaces >>

\* getOrCreateContainer resumes with the lookup's answer and branches.
GetFluidContainerIdReturns(j, info) ==
    /\ pc[j] = "lookup"
    /\ LET branch == LookupBranch(info, tries[j]) IN
       /\ branch = "create" => Len(containers[j]) < MaxCreates
       /\ pc' = [pc EXCEPT ![j] =
                    CASE branch = "create" -> "creating"
                      [] branch = "open" -> "opening"
                      [] branch = "wait" -> "waiting"
                      [] OTHER -> "failed"]
       /\ error' = [error EXCEPT ![j] = IF branch = "timeout" THEN Timeout ELSE @]
       /\ waits' = [waits EXCEPT ![j] = IF branch = "wait" THEN @ + 1 ELSE @]
    /\ containerInfo' = [containerInfo EXCEPT ![j] = info]
    /\ firstBranch' = [firstBranch EXCEPT ![j] =
                        IF @ = "none" THEN LookupBranch(info, tries[j]) ELSE @]
    /\ UNCHANGED apiCalls
    /\ UNCHANGED << roleVars, connVars, tokenVars, service, isTesting, mapping, accepted, tries, hasHook, containers,
                    result, lookups, lostRaces >>

\* Mutant: the lookup after a wait does not count as a try.
WaitElapsedSameTries(j) ==
    /\ pc[j] = "waiting"
    /\ pc' = [pc EXCEPT ![j] = "lookup"]
    /\ lookups' = [lookups EXCEPT ![j] = @ + 1]
    /\ apiCalls' = ApiCalled(j)
    /\ UNCHANGED << roleVars, connVars, tokenVars, service, isTesting, mapping, accepted, containerInfo, firstBranch,
                    hasHook, containers, result, error, waits, lostRaces, tries >>

\* The timer of wait(retryAfter) fires: getOrCreateContainer(.., tries + 1, ..).
WaitElapsed(j) ==
    /\ pc[j] = "waiting"
    /\ pc' = [pc EXCEPT ![j] = "lookup"]
    /\ tries' = [tries EXCEPT ![j] = @ + 1]
    /\ lookups' = [lookups EXCEPT ![j] = @ + 1]
    /\ apiCalls' = ApiCalled(j)
    /\ UNCHANGED << roleVars, connVars, tokenVars, service, isTesting, mapping, accepted, containerInfo, firstBranch,
                    hasHook, containers, result, error, waits, lostRaces >>

\* Mutant: an opened container is reported as created.
GetContainerReturnsCreated(j) ==
    /\ pc[j] = "opening"
    /\ pc' = [pc EXCEPT ![j] = "done"]
    /\ result' = [result EXCEPT ![j] =
                    [created |-> TRUE,
                     container |-> containerInfo[j].containerId,
                     via |-> "open"]]
    /\ UNCHANGED apiCalls
    /\ UNCHANGED << roleVars, connVars, tokenVars, service, isTesting, mapping, accepted, tries, containerInfo, firstBranch,
                    hasHook, containers, error, lookups, waits, lostRaces >>

\* client.getContainer(containerInfo.containerId, schema) resolves.
GetContainerReturns(j) ==
    /\ pc[j] = "opening"
    /\ pc' = [pc EXCEPT ![j] = "done"]
    /\ result' = [result EXCEPT ![j] =
                    [created |-> FALSE,
                     container |-> containerInfo[j].containerId,
                     via |-> "open"]]
    /\ UNCHANGED apiCalls
    /\ UNCHANGED << roleVars, connVars, tokenVars, service, isTesting, mapping, accepted, tries, containerInfo, firstBranch,
                    hasHook, containers, error, lookups, waits, lostRaces >>

\* Mutant: the container is attached before the hook runs.
CreateContainerReturnsAttachFirst(j) ==
    /\ pc[j] = "creating"
    /\ containers' = [containers EXCEPT ![j] =
            Append(@, << "create", "attach" >> \o
                      (IF hasHook[j] THEN << "init" >> ELSE << >>))]
    /\ pc' = [pc EXCEPT ![j] = "attaching"]
    /\ UNCHANGED apiCalls
    /\ UNCHANGED << roleVars, connVars, tokenVars, service, isTesting, mapping, accepted, tries, containerInfo, firstBranch,
                    hasHook, result, error, lookups, waits, lostRaces >>

\* createNewContainer: client.createContainer resolves; the hook runs, then
\* container.attach() is called.
CreateContainerReturns(j) ==
    /\ pc[j] = "creating"
    /\ containers' = [containers EXCEPT ![j] =
            Append(@, << "create" >> \o
                      (IF hasHook[j] THEN << "init" >> ELSE << >>) \o
                      << "attach" >>)]
    /\ pc' = [pc EXCEPT ![j] = "attaching"]
    /\ UNCHANGED apiCalls
    /\ UNCHANGED << roleVars, connVars, tokenVars, service, isTesting, mapping, accepted, tries, containerInfo, firstBranch,
                    hasHook, result, error, lookups, waits, lostRaces >>

\* createNewContainer: container.attach() resolves with the new ID, which is
\* sent to setFluidContainerId.
AttachReturns(j) ==
    /\ pc[j] = "attaching"
    /\ containers' = Append2(j, "publish")
    /\ pc' = [pc EXCEPT ![j] = "publishing"]
    /\ apiCalls' = ApiCalled(j)
    /\ mapping' = IF isTesting THEN NewContainerId(j, Current(j)) ELSE mapping
    /\ UNCHANGED << roleVars, connVars, tokenVars, service, isTesting, accepted, tries, containerInfo, firstBranch,
                    hasHook, result, error, lookups, waits, lostRaces >>

\* createNewContainer: setFluidContainerId answered true.
PublishAccepted(j) ==
    /\ pc' = [pc EXCEPT ![j] = "done"]
    /\ result' = [result EXCEPT ![j] =
                    [created |-> TRUE,
                     container |-> NewContainerId(j, Current(j)),
                     via |-> "create"]]
    /\ UNCHANGED apiCalls
    /\ UNCHANGED << tries, containers, lookups, lostRaces >>

\* Mutant: the rejected container is kept, not disposed.
PublishRejectedNoDispose(j) ==
    /\ pc' = [pc EXCEPT ![j] = "lookup"]
    /\ tries' = [tries EXCEPT ![j] = @ + 1]
    /\ lookups' = [lookups EXCEPT ![j] = @ + 1]
    /\ lostRaces' = [lostRaces EXCEPT ![j] = @ + 1]
    /\ apiCalls' = ApiCalled(j)
    /\ UNCHANGED << result, containers >>

\* Mutant: after a rejection the call returns its own container.
PublishRejectedKeepsOwn(j) ==
    /\ containers' = Append2(j, "dispose")
    /\ pc' = [pc EXCEPT ![j] = "done"]
    /\ result' = [result EXCEPT ![j] =
                    [created |-> FALSE,
                     container |-> NewContainerId(j, Current(j)),
                     via |-> "create"]]
    /\ lostRaces' = [lostRaces EXCEPT ![j] = @ + 1]
    /\ UNCHANGED apiCalls
    /\ UNCHANGED << tries, lookups >>

\* Mutant: the retry after a rejection does not count as a try.
PublishRejectedSameTries(j) ==
    /\ containers' = Append2(j, "dispose")
    /\ pc' = [pc EXCEPT ![j] = "lookup"]
    /\ lookups' = [lookups EXCEPT ![j] = @ + 1]
    /\ lostRaces' = [lostRaces EXCEPT ![j] = @ + 1]
    /\ apiCalls' = ApiCalled(j)
    /\ UNCHANGED << result, tries >>

\* Mutant: after a rejection a new container is created at once, the old one
\* still in use.
PublishRejectedCreatesAgain(j) ==
    /\ pc' = [pc EXCEPT ![j] = "creating"]
    /\ tries' = [tries EXCEPT ![j] = @ + 1]
    /\ lostRaces' = [lostRaces EXCEPT ![j] = @ + 1]
    /\ UNCHANGED apiCalls
    /\ UNCHANGED << result, containers, lookups >>

\* createNewContainer: setFluidContainerId answered false: dispose the
\* container and call getOrCreateContainer(.., tries + 1, ..).
PublishRejected(j) ==
    /\ containers' = Append2(j, "dispose")
    /\ pc' = [pc EXCEPT ![j] = "lookup"]
    /\ tries' = [tries EXCEPT ![j] = @ + 1]
    /\ lookups' = [lookups EXCEPT ![j] = @ + 1]
    /\ lostRaces' = [lostRaces EXCEPT ![j] = @ + 1]
    /\ apiCalls' = ApiCalled(j)
    /\ UNCHANGED result

\* The service handles the set request and createNewContainer resumes.
SetFluidContainerIdReturns(j, containerState) ==
    /\ pc[j] = "publishing"
    /\ IF containerState = "added"
       THEN /\ mapping' = NewContainerId(j, Current(j))
            /\ accepted' = accepted \cup { NewContainerId(j, Current(j)) }
       ELSE UNCHANGED << mapping, accepted >>
    /\ IF SetFluidContainerIdResult(containerState)
       THEN PublishAccepted(j)
       ELSE PublishRejected(j)
    /\ UNCHANGED << roleVars, connVars, tokenVars, service, isTesting, containerInfo, firstBranch, hasHook, error, waits >>

\* Local testing: getOrCreateContainer resumes with the answer made from
\* getLocalTestContainerId().
GetLocalTestContainerIdReturns(j, containerId) ==
    /\ isTesting
    /\ GetFluidContainerIdReturns(j, LocalContainerInfo(containerId))

\* Local testing: createNewContainer resumes after setLocalTestContainerId.
SetLocalTestContainerIdReturns(j) ==
    /\ isTesting
    /\ pc[j] = "publishing"
    /\ accepted' = accepted \cup { NewContainerId(j, Current(j)) }
    /\ IF SetLocalTestContainerIdResult
       THEN PublishAccepted(j)
       ELSE PublishRejected(j)
    /\ UNCHANGED << roleVars, connVars, tokenVars, service, isTesting, mapping, containerInfo, firstBranch,
                    hasHook, error, waits >>

\* A collaborator call rejects (an HTTP status >= 400, a failed attach, ...):
\* nothing catches it, so joinContainer rejects with that error.
CollaboratorFails(j) ==
    /\ pc[j] \in {"lookup", "creating", "attaching", "publishing", "opening"}
    /\ isTesting => pc[j] \notin {"lookup", "publishing"}
    /\ pc' = [pc EXCEPT ![j] = "failed"]
    /\ error' = [error EXCEPT ![j] = Upstream]
    /\ UNCHANGED apiCalls
    /\ UNCHANGED << roleVars, connVars, tokenVars, service, isTesting, mapping, accepted, tries, containerInfo, firstBranch,
                    hasHook, containers, result, lookups, waits, lostRaces >>


\* ------------------------------------------------------------------------
\* RoleVerifier
\* ------------------------------------------------------------------------

\* Mutant: a schedule of two waits.
ShortSchedule == << 100, 200 >>

\* EXPONENTIAL_BACKOFF_SCHEDULE
EXPONENTIAL_BACKOFF_SCHEDULE == << 100, 200, 200, 400, 600 >>

\* Mutant: a lifetime of half an hour.
HalfHourLifetime == 30 * 60 * 1000

\* CACHE_LIFETIME
CACHE_LIFETIME == 60 * 60 * 1000

\* The clock advances in steps of half an hour.
TickMs == 30 * 60 * 1000

Calls == 1 .. NumCalls

ClientIds == {"a", "b"}

\* "register": _registerRequestCache, "get": _getRequestCache
CacheKinds == {"register", "get"}

\* What an API method resolves to: a UserMeetingRole[] or undefined.
NotAnArray == [isArray |-> FALSE, roles |-> << >>]
RoleArray(r) == [isArray |-> TRUE, roles |-> r]
RoleArrays == { RoleArray(<< >>), RoleArray(<< "Organizer" >>) }

\* A missing clientId (undefined or the empty string).
NoClientId == ""
AllClientIds == ClientIds \cup {NoClientId}

\* The allowedRoles arguments of verifyRolesAllowed (absent, empty, or roles).
AllowedRoles ==
    { NotAnArray, RoleArray(<< >>), RoleArray(<< "Presenter" >>),
      RoleArray(<< "Presenter", "Organizer" >>) }

\* The HTTP responses of livesync/v1/clientRoles/register and /get.
Responses ==
    { [status |-> 200, userRoles |-> u] : u \in RoleArrays \cup {NotAnArray} }
    \cup { [status |-> 404, userRoles |-> NotAnArray],
           [status |-> 500, userRoles |-> NotAnArray] }

\* TeamsLiveAPI.registerClientId
ApiRegisterClientId(res) ==
    IF res.status >= 400
    THEN [throws |-> TRUE, value |-> NotAnArray]
    ELSE [throws |-> FALSE, value |-> res.userRoles]

\* Mutant: every failure status is read as "no roles yet".
ApiGetClientRolesLenient(res) ==
    IF res.status >= 400 THEN [throws |-> FALSE, value |-> NotAnArray]
    ELSE IF res.userRoles.isArray
         THEN [throws |-> FALSE, value |-> res.userRoles]
         ELSE [throws |-> FALSE, value |-> NotAnArray]

\* TeamsLiveAPI.getClientRoles
ApiGetClientRoles(res) ==
    IF res.status = 404 THEN [throws |-> FALSE, value |-> NotAnArray]
    ELSE IF res.status >= 400 THEN [throws |-> TRUE, value |-> NotAnArray]
    ELSE IF res.userRoles.isArray
         THEN [throws |-> FALSE, value |-> res.userRoles]
         ELSE [throws |-> FALSE, value |-> NotAnArray]

ApiResult(kind, res) ==
    IF kind = "register" THEN ApiRegisterClientId(res) ELSE ApiGetClientRoles(res)

\* The success test RoleVerifier hands to waitForResult.
IsAcceptable(value) == value.isArray

RegisterTimeout == "RoleVerifier: timed out registering local client ID"
GetTimeout == "RoleVerifier: timed out getting roles for a remote client ID"
ApiError == "TeamsLiveAPI: request returned an error status"
InvalidGetClientRoles == "RoleVerifier: called getCLientRoles() without a clientId"
InvalidVerifyRolesAllowed == "RoleVerifier: called verifyRolesAllowed() without a clientId"

TimeoutError(kind) == IF kind = "register" THEN RegisterTimeout ELSE GetTimeout

EmptyEntry == [state |-> "empty", run |-> 0, value |-> NotAnArray, expiresAt |-> 0]

\* fresh: the call started the run it awaits; pendingAtCall, calledAt: the
\* runs pending for its key and the clock when the call was made.
IdleCall == [op |-> "none", clientId |-> "a", state |-> "idle", run |-> 0,
             value |-> NotAnArray, error |-> NoError, pendingAtCall |-> {},
             fresh |-> FALSE, calledAt |-> 0,
             allowedRoles |-> NotAnArray, verdict |-> FALSE]

\* A call of `op` for clientId, as it is made.
NewCall(op, clientId, allowedRoles) ==
    [IdleCall EXCEPT !.op = op, !.clientId = clientId, !.calledAt = now,
                     !.allowedRoles = allowedRoles]

\* roles.indexOf(role)
RECURSIVE IndexFrom(_, _, _)
IndexFrom(roles, role, i) ==
    IF i > Len(roles) THEN -1
    ELSE IF roles[i] = role THEN i - 1
    ELSE IndexFrom(roles, role, i + 1)

IndexOf(roles, role) == IndexFrom(roles, role, 1)

\* The loop of verifyRolesAllowed over allowedRoles, from index i.
RECURSIVE RolesAllowedFrom(_, _, _)
RolesAllowedFrom(roles, allowedRoles, i) ==
    IF i > Len(allowedRoles) THEN FALSE
    ELSE IF IndexOf(roles, allowedRoles[i]) >= 0 THEN TRUE
    ELSE RolesAllowedFrom(roles, allowedRoles, i + 1)

\* Mutant: only the first allowed role is looked for.
RolesAllowedFirstOnly(roles, allowedRoles) ==
    Len(allowedRoles) > 0 /\ IndexOf(roles, allowedRoles[1]) >= 0

RolesAllowed(roles, allowedRoles) == RolesAllowedFrom(roles, allowedRoles, 1)

\* The caller's code after its await: getClientRoles and registerClientId hand
\* the outcome on; verifyRolesAllowed turns the roles into its answer.
Resume(call, state, value, err) ==
    [call EXCEPT !.state = state, !.value = value, !.error = err,
                 !.verdict = /\ call.op = "verify"
                             /\ state = "resolved"
                             /\ RolesAllowed(value.roles, call.allowedRoles.roles)]

Settled(r) == runs[r].state \in {"resolved", "rejected"}

\* The runs for this cache and key that have not settled yet.
PendingRuns(kind, key) ==
    { r \in 1 .. Len(runs) :
        runs[r].kind = kind /\ runs[r].key = key /\ ~Settled(r) }

\* waitForResult(operation, isAcceptable, onTimeout, schedule) is called: the
\* first call of the operation is made at once.
NewRun(kind, key) ==
    [kind |-> kind, key |-> key, state |-> "calling", attempts |-> 1,
     waitsDone |-> 0, waited |-> << >>, lastStatus |-> 0,
     value |-> NotAnArray, error |-> NoError, settledAt |-> 0]

\* The call slot of handler h: its one registerClientId call in flight.
Handlers == 1 .. NumHandlers
HandlerCall(h) == NumCalls + h
CallSlots == 1 .. (NumCalls + NumHandlers)

\* Calls are numbered in the order in which they are made.
NextCall(c) ==
    /\ calls[c].state = "idle"
    /\ \A d \in 1 .. c - 1 : calls[d].state # "idle"

\* A cached value is served until its lifetime is over.
Live(entry) == entry.state = "ready" /\ now < entry.expiresAt

\* RequestCache.cacheRequest(key, producer), called by call c.
CacheRequest(c, call, kind, key) ==
    LET entry == cache[kind][key]
        called == [call EXCEPT !.pendingAtCall = PendingRuns(kind, key)]
    IN
    CASE Live(entry) ->
            /\ calls' = [calls EXCEPT ![c] =
                    Resume([called EXCEPT !.run = entry.run],
                           "resolved", entry.value, NoError)]
            /\ UNCHANGED << cache, runs >>
      [] entry.state = "pending" ->
            /\ calls' = [calls EXCEPT ![c] =
                    [called EXCEPT !.state = "pending", !.run = entry.run]]
            /\ UNCHANGED << cache, runs >>
      [] OTHER ->
            /\ Len(runs) < MaxRuns
            /\ runs' = Append(runs, NewRun(kind, key))
            /\ cache' = [cache EXCEPT ![kind][key] =
                    [state |-> "pending", run |-> Len(runs) + 1,
                     value |-> NotAnArray, expiresAt |-> 0]]
            /\ calls' = [calls EXCEPT ![c] =
                    [called EXCEPT !.state = "pending", !.run = Len(runs) + 1,
                                   !.fresh = TRUE]]

\* The call ends at once, with no use of the cache.
EndsAtOnce(c, call, state, err) ==
    /\ calls' = [calls EXCEPT ![c] =
            [call EXCEPT !.state = state, !.error = err,
                         !.verdict = (state = "resolved")]]
    /\ UNCHANGED << cache, runs >>

\* Mutant: the producer is run for every call, whatever the cache holds.
RegisterClientIdUncached(c, clientId) ==
    /\ NextCall(c)
    /\ Len(runs) < MaxRuns
    /\ runs' = Append(runs, NewRun("register", clientId))
    /\ cache' = [cache EXCEPT !["register"][clientId] =
            [state |-> "pending", run |-> Len(runs) + 1, value |-> NotAnArray,
             expiresAt |-> 0]]
    /\ calls' = [calls EXCEPT ![c] =
            [NewCall("register", clientId, NotAnArray) EXCEPT
                             !.pendingAtCall = PendingRuns("register", clientId),
                             !.fresh = TRUE,
                             !.state = "pending", !.run = Len(runs) + 1]]
    /\ UNCHANGED << joinVars, connVars, tokenVars, now >>

\* Mutant: a failed registration is kept and handed to the next call.
RegisterClientIdReplays(c, clientId) ==
    /\ NextCall(c)
    /\ LET failed == { r \in 1 .. Len(runs) :
                        /\ runs[r].kind = "register" /\ runs[r].key = clientId
                        /\ runs[r].state = "rejected" }
       IN
       IF failed # {} /\ cache["register"][clientId].state = "empty"
       THEN LET r == CHOOSE x \in failed : TRUE IN
            /\ calls' = [calls EXCEPT ![c] =
                    [NewCall("register", clientId, NotAnArray) EXCEPT
                                     !.state = "rejected",
                                     !.run = r, !.error = runs[r].error]]
            /\ UNCHANGED << cache, runs >>
       ELSE CacheRequest(c, NewCall("register", clientId, NotAnArray),
                         "register", clientId)
    /\ UNCHANGED << joinVars, connVars, tokenVars, now >>

\* RoleVerifier.registerClientId(clientId)
RegisterClientId(c, clientId) ==
    /\ NextCall(c)
    /\ CacheRequest(c, NewCall("register", clientId, NotAnArray),
                    "register", clientId)
    /\ UNCHANGED << joinVars, connVars, tokenVars, now >>

\* ------------------------------------------------------------------------
\* TeamsFluidClient: the 'connected' handler installed by joinContainer
\* ------------------------------------------------------------------------

\* services.audience.getMyself()?.connections ?? [], as connection ids.
ConnectionLists == { << >>, << "a" >>, << "a", "b" >> }

IdleHandler == [state |-> "idle", connections |-> << >>, i |-> 0, invoked |-> {}]

\* Mutant: the handler registers through a cache of its own.
HandlerRegistersUncached(h, clientId) ==
    /\ Len(runs) < MaxRuns
    /\ runs' = Append(runs, NewRun("register", clientId))
    /\ cache' = [cache EXCEPT !["register"][clientId] =
            [state |-> "pending", run |-> Len(runs) + 1, value |-> NotAnArray,
             expiresAt |-> 0]]
    /\ calls' = [calls EXCEPT ![HandlerCall(h)] =
            [NewCall("register", clientId, NotAnArray) EXCEPT
                             !.pendingAtCall = PendingRuns("register", clientId),
                             !.fresh = TRUE,
                             !.state = "pending", !.run = Len(runs) + 1]]

\* await this._roleVerifier?.registerClientId(clientId)
HandlerRegisters(h, clientId) ==
    CacheRequest(HandlerCall(h), NewCall("register", clientId, NotAnArray),
                 "register", clientId)

\* The container emits 'connected': the handler runs up to its first await.
Connected(h, connections) ==
    /\ pc[1] = "done"
    /\ handlers[h].state = "idle"
    /\ \A g \in 1 .. h - 1 : handlers[g].state # "idle"
    /\ IF roleVerifier /\ Len(connections) > 0
       THEN /\ HandlerRegisters(h, connections[1])
            /\ handlers' = [handlers EXCEPT ![h] =
                    [state |-> "awaiting", connections |-> connections, i |-> 1,
                     invoked |-> {connections[1]}]]
       ELSE /\ handlers' = [handlers EXCEPT ![h] =
                    [IdleHandler EXCEPT !.state = "done",
                                        !.connections = connections]]
            /\ UNCHANGED << calls, cache, runs >>
    /\ UNCHANGED << joinVars, tokenVars, roleVerifier, now >>

\* The awaited registerClientId has settled: the loop goes on with the next
\* connection, or the handler ends; a rejection ends the handler at once.
HandlerResumes(h) ==
    LET hd == handlers[h]
        call == calls[HandlerCall(h)]
    IN
    /\ hd.state = "awaiting"
    /\ call.state \in {"resolved", "rejected"}
    /\ IF call.state = "rejected"
       THEN /\ handlers' = [handlers EXCEPT ![h].state = "failed"]
            /\ UNCHANGED << calls, cache, runs >>
       ELSE IF hd.i < Len(hd.connections)
       THEN /\ HandlerRegisters(h, hd.connections[hd.i + 1])
            /\ handlers' = [handlers EXCEPT ![h].i = hd.i + 1,
                    ![h].invoked = @ \cup {hd.connections[hd.i + 1]}]
       ELSE /\ handlers' = [handlers EXCEPT ![h].state = "done"]
            /\ UNCHANGED << calls, cache, runs >>
    /\ UNCHANGED << joinVars, tokenVars, roleVerifier, now >>

\* ------------------------------------------------------------------------
\* TeamsFluidTokenProvider
\* ------------------------------------------------------------------------

Fetches == 1 .. NumFetches

\* frsToken, _tenantId, _documentId: undefined
NoToken == 0
NoTenantId == ""
NoDocumentId == ""

TenantIds == {"t1", "t2"}

\* documentId?: string
DocumentIds == {NoDocumentId, "d1"}

NoSuccess == [tenantId |-> NoTenantId, documentId |-> NoDocumentId, jwt |-> NoToken]

\* alone: when this call was made no call was pending, and the same held for
\* every call before it; prev: the last call that had resolved by then;
\* fetched: the call requested a token with getFluidToken.
IdleFetch == [state |-> "idle", op |-> "none", tenantId |-> NoTenantId,
              documentId |-> NoDocumentId, refresh |-> FALSE,
              jwt |-> NoToken, fromCache |-> FALSE, fetched |-> FALSE,
              alone |-> FALSE, prev |-> NoSuccess]

\* fetchFluidToken: the test that decides between a new token and the held one.
MustFetch(tenantId, documentId, refresh) ==
    \/ frsToken = NoToken
    \/ refresh
    \/ tokenTenantId # tenantId
    \/ tokenDocumentId # documentId

\* fetchFluidToken after its branch: this._tenantId = tenantId;
\* if (documentId) this._documentId = documentId.
Remember(tenantId, documentId) ==
    /\ tokenTenantId' = tenantId
    /\ tokenDocumentId' = IF documentId # NoDocumentId THEN documentId
                          ELSE tokenDocumentId

\* fetchFluidToken(tenantId, documentId, refresh), up to its await or, when
\* the held token is used, to its end.
FetchFluidToken(f, op, tenantId, documentId, refresh) ==
    /\ fetches[f].state = "idle"
    /\ \A g \in 1 .. f - 1 : fetches[g].state # "idle"
    /\ LET call == [IdleFetch EXCEPT !.op = op, !.tenantId = tenantId,
                        !.documentId = documentId, !.refresh = refresh,
                        !.alone = (\A g \in Fetches :
                                      /\ fetches[g].state # "pending"
                                      /\ fetches[g].state # "idle" => fetches[g].alone),
                        !.prev = lastSuccess]
       IN
       IF MustFetch(tenantId, documentId, refresh)
       THEN /\ fetches' = [fetches EXCEPT ![f] =
                    [call EXCEPT !.state = "pending", !.fetched = TRUE]]
            /\ UNCHANGED << frsToken, tokenTenantId, tokenDocumentId, lastSuccess >>
       ELSE /\ fetches' = [fetches EXCEPT ![f] =
                    [call EXCEPT !.state = "resolved", !.jwt = frsToken,
                                 !.fromCache = TRUE]]
            /\ Remember(tenantId, documentId)
            /\ lastSuccess' = [tenantId |-> tenantId, documentId |-> documentId,
                               jwt |-> frsToken]
            /\ UNCHANGED frsToken
    /\ UNCHANGED << joinVars, roleVars, connVars, tokensIssued >>

\* fetchOrdererToken(tenantId, documentId, refresh)
FetchOrdererToken(f, tenantId, documentId, refresh) ==
    FetchFluidToken(f, "orderer", tenantId, documentId, refresh)

\* fetchStorageToken(tenantId, documentId, refresh)
FetchStorageToken(f, tenantId, documentId, refresh) ==
    FetchFluidToken(f, "storage", tenantId, documentId, refresh)

\* this.api.getFluidToken(documentId) resolves with a new token.
GetFluidTokenReturns(f) ==
    /\ fetches[f].state = "pending"
    /\ tokensIssued' = tokensIssued + 1
    /\ frsToken' = tokensIssued + 1
    /\ Remember(fetches[f].tenantId, fetches[f].documentId)
    /\ fetches' = [fetches EXCEPT ![f].state = "resolved",
                                  ![f].jwt = tokensIssued + 1,
                                  ![f].fromCache = FALSE]
    /\ lastSuccess' = [tenantId |-> fetches[f].tenantId,
                       documentId |-> fetches[f].documentId,
                       jwt |-> tokensIssued + 1]
    /\ UNCHANGED << joinVars, roleVars, connVars >>

\* this.api.getFluidToken(documentId) rejects: so does the call.
GetFluidTokenFails(f) ==
    /\ fetches[f].state = "pending"
    /\ fetches' = [fetches EXCEPT ![f].state = "rejected"]
    /\ UNCHANGED << joinVars, roleVars, connVars, frsToken, tokenTenantId,
                    tokenDocumentId, tokensIssued, lastSuccess >>

TokenInit ==
    /\ frsToken = NoToken
    /\ tokenTenantId = NoTenantId
    /\ tokenDocumentId = NoDocumentId
    /\ fetches = [f \in Fetches |-> IdleFetch]
    /\ tokensIssued = 0
    /\ lastSuccess = NoSuccess

TokenNext ==
    \/ \E f \in Fetches, t \in TenantIds, d \in DocumentIds, refresh \in BOOLEAN :
            FetchOrdererToken(f, t, d, refresh)
    \/ \E f \in Fetches, t \in TenantIds, d \in DocumentIds, refresh \in BOOLEAN :
            FetchStorageToken(f, t, d, refresh)
    \/ \E f \in Fetches : GetFluidTokenReturns(f)
    \/ \E f \in Fetches : GetFluidTokenFails(f)

ConnInit(active) ==
    /\ handlers = [h \in Handlers |-> IdleHandler]
    /\ roleVerifier = active

\* Mutant: role lookups go through the registration cache.
GetClientRolesSharedCache(c, clientId) ==
    /\ NextCall(c)
    /\ CacheRequest(c, NewCall("getRoles", clientId, NotAnArray),
                    "register", clientId)
    /\ UNCHANGED << joinVars, connVars, tokenVars, now >>

\* RoleVerifier.getClientRoles(clientId)
GetClientRoles(c, clientId) ==
    /\ NextCall(c)
    /\ LET call == NewCall("getRoles", clientId, NotAnArray) IN
       IF clientId = NoClientId
       THEN EndsAtOnce(c, call, "rejected", InvalidGetClientRoles)
       ELSE CacheRequest(c, call, "get", clientId)
    /\ UNCHANGED << joinVars, connVars, tokenVars, now >>

\* Mutant: the roles are looked up whatever allowedRoles holds.
VerifyRolesAllowedAlwaysLooksUp(c, clientId, allowedRoles) ==
    /\ NextCall(c)
    /\ LET call == NewCall("verify", clientId, allowedRoles) IN
       IF clientId = NoClientId
       THEN EndsAtOnce(c, call, "rejected", InvalidVerifyRolesAllowed)
       ELSE CacheRequest(c, call, "get", clientId)
    /\ UNCHANGED << joinVars, connVars, tokenVars, now >>

\* Mutant: allowedRoles is tested before the clientId.
VerifyRolesAllowedRolesFirst(c, clientId, allowedRoles) ==
    /\ NextCall(c)
    /\ LET call == NewCall("verify", clientId, allowedRoles) IN
       IF ~(allowedRoles.isArray /\ Len(allowedRoles.roles) > 0)
       THEN EndsAtOnce(c, call, "resolved", NoError)
       ELSE IF clientId = NoClientId
       THEN EndsAtOnce(c, call, "rejected", InvalidVerifyRolesAllowed)
       ELSE CacheRequest(c, call, "get", clientId)
    /\ UNCHANGED << joinVars, connVars, tokenVars, now >>

\* RoleVerifier.verifyRolesAllowed(clientId, allowedRoles), up to its await of
\* getClientRoles(clientId)
VerifyRolesAllowed(c, clientId, allowedRoles) ==
    /\ NextCall(c)
    /\ LET call == NewCall("verify", clientId, allowedRoles) IN
       IF clientId = NoClientId
       THEN EndsAtOnce(c, call, "rejected", InvalidVerifyRolesAllowed)
       ELSE IF allowedRoles.isArray /\ Len(allowedRoles.roles) > 0
       THEN CacheRequest(c, call, "get", clientId)
       ELSE EndsAtOnce(c, call, "resolved", NoError)
    /\ UNCHANGED << joinVars, connVars, tokenVars, now >>

\* The calls awaiting run r resume with its outcome as soon as it settles
\* (promise reactions run before any other event is handled).
SettleCalls(r, state, value, err) ==
    [c \in CallSlots |->
        IF calls[c].state = "pending" /\ calls[c].run = r
        THEN Resume(calls[c], state, value, err)
        ELSE calls[c]]

\* waitForResult: the operation's call returns `res`.
ApiReturns(r, res) ==
    /\ r \in 1 .. Len(runs)
    /\ runs[r].state = "calling"
    /\ LET run == [runs[r] EXCEPT !.lastStatus = res.status, !.settledAt = now]
           out == ApiResult(run.kind, res)
           mine == cache[run.kind][run.key].state = "pending"
                   /\ cache[run.kind][run.key].run = r
       IN
       IF out.throws
       THEN /\ runs' = [runs EXCEPT ![r] =
                    [run EXCEPT !.state = "rejected", !.error = ApiError]]
            /\ cache' = IF mine THEN [cache EXCEPT ![run.kind][run.key] = EmptyEntry]
                        ELSE cache
            /\ calls' = SettleCalls(r, "rejected", NotAnArray, ApiError)
       ELSE IF IsAcceptable(out.value)
       THEN /\ runs' = [runs EXCEPT ![r] =
                    [run EXCEPT !.state = "resolved", !.value = out.value]]
            /\ cache' = IF mine
                        THEN [cache EXCEPT ![run.kind][run.key] =
                                [state |-> "ready", run |-> r, value |-> out.value,
                                 expiresAt |-> now + CACHE_LIFETIME]]
                        ELSE cache
            /\ calls' = SettleCalls(r, "resolved", out.value, NoError)
       ELSE IF run.waitsDone < Len(EXPONENTIAL_BACKOFF_SCHEDULE)
       THEN /\ runs' = [runs EXCEPT ![r] = [run EXCEPT !.state = "waiting",
                    !.waited = Append(@, EXPONENTIAL_BACKOFF_SCHEDULE[run.waitsDone + 1]),
                    !.settledAt = 0]]
            /\ UNCHANGED << cache, calls >>
       ELSE /\ runs' = [runs EXCEPT ![r] =
                    [run EXCEPT !.state = "rejected", !.error = TimeoutError(run.kind)]]
            /\ cache' = IF mine THEN [cache EXCEPT ![run.kind][run.key] = EmptyEntry]
                        ELSE cache
            /\ calls' = SettleCalls(r, "rejected", NotAnArray, TimeoutError(run.kind))
    /\ UNCHANGED << joinVars, connVars, tokenVars, now >>

\* waitForResult: the scheduled wait is over, the operation is called again.
PollAgain(r) ==
    /\ r \in 1 .. Len(runs)
    /\ runs[r].state = "waiting"
    /\ runs' = [runs EXCEPT ![r].state = "calling",
                            ![r].attempts = @ + 1,
                            ![r].waitsDone = @ + 1]
    /\ UNCHANGED << calls, cache >>
    /\ UNCHANGED << joinVars, connVars, tokenVars, now >>

\* Half an hour passes.
Tick ==
    /\ now < MaxTicks * TickMs
    /\ now' = now + TickMs
    /\ UNCHANGED << joinVars, connVars, tokenVars, calls, cache, runs >>

RoleInit ==
    /\ calls = [c \in CallSlots |-> IdleCall]
    /\ cache = [k \in CacheKinds |-> [id \in AllClientIds |-> EmptyEntry]]
    /\ runs = << >>
    /\ now = 0

RoleNext ==
    \/ \E c \in Calls, id \in ClientIds : RegisterClientId(c, id)
    \/ \E c \in Calls, id \in ClientIds : GetClientRoles(c, id)
    \/ \E r \in 1 .. MaxRuns, res \in Responses : ApiReturns(r, res)
    \/ \E r \in 1 .. MaxRuns : PollAgain(r)

JoinInitIn(s, n, testing) ==
    /\ isTesting = testing
    /\ apiCalls = [j \in Joins |-> 0]
    /\ service = s
    /\ mapping = Undefined
    /\ accepted = {}
    /\ pc = [j \in Joins |-> IF j <= n THEN "idle" ELSE "unused"]
    /\ tries = [j \in Joins |-> 0]
    /\ containerInfo = [j \in Joins |-> NoInfo]
    /\ firstBranch = [j \in Joins |-> "none"]
    /\ hasHook = [j \in Joins |-> FALSE]
    /\ containers = [j \in Joins |-> << >>]
    /\ result = [j \in Joins |-> NoResult]
    /\ error = [j \in Joins |-> NoError]
    /\ lookups = [j \in Joins |-> 0]
    /\ waits = [j \in Joins |-> 0]
    /\ lostRaces = [j \in Joins |-> 0]

JoinInit(s, n) == JoinInitIn(s, n, FALSE)

JoinNext ==
    \E j \in Joins :
        \/ \E hook \in BOOLEAN : JoinContainer(j, hook)
        \/ \E info \in GetReplies : GetFluidContainerIdReturns(j, info)
        \/ WaitElapsed(j)
        \/ GetContainerReturns(j)
        \/ CreateContainerReturns(j)
        \/ AttachReturns(j)
        \/ \E s \in SetReplies : SetFluidContainerIdReturns(j, s)
        \/ CollaboratorFails(j)

\* Joins against a service that may answer anything.
Init == JoinInit("any", NumLoneJoins) /\ RoleInit /\ TokenInit /\ ConnInit(FALSE)

Next == JoinNext

Spec == Init /\ [][Next]_vars

\* Joins of one session against the set-if-absent service.
InitSession == JoinInit("setIfAbsent", NumJoins) /\ RoleInit /\ TokenInit /\ ConnInit(FALSE)

SpecSession == InitSession /\ [][Next]_vars

\* Calls on one RoleVerifier, no join in progress.
InitRoles == JoinInit("any", 0) /\ RoleInit /\ TokenInit /\ ConnInit(FALSE)

NextRoles == RoleNext

SpecRoles == InitRoles /\ [][NextRoles]_vars

\* getClientRoles calls on one RoleVerifier while the clock advances.
NextExpiry ==
    \/ \E c \in Calls : GetClientRoles(c, "a")
    \/ \E r \in 1 .. MaxRuns, res \in Responses : ApiReturns(r, res)
    \/ \E r \in 1 .. MaxRuns : PollAgain(r)
    \/ Tick

SpecExpiry == InitRoles /\ [][NextExpiry]_vars

\* verifyRolesAllowed and getClientRoles calls on one RoleVerifier, with and
\* without a clientId.
NextVerify ==
    \/ \E c \in Calls, id \in AllClientIds, allowedRoles \in AllowedRoles :
            VerifyRolesAllowed(c, id, allowedRoles)
    \/ \E c \in Calls, id \in AllClientIds : GetClientRoles(c, id)
    \/ \E r \in 1 .. MaxRuns, res \in Responses : ApiReturns(r, res)
    \/ \E r \in 1 .. MaxRuns : PollAgain(r)

SpecVerify == InitRoles /\ [][NextVerify]_vars

\* joinContainer has returned for join 1: it opened the container the
\* service named in answer to the first lookup.
Joined ==
    /\ isTesting = FALSE
    /\ apiCalls = [j \in Joins |-> IF j = 1 THEN 1 ELSE 0]
    /\ service = "any"
    /\ mapping = Undefined
    /\ accepted = {}
    /\ pc = [j \in Joins |-> IF j = 1 THEN "done" ELSE "unused"]
    /\ tries = [j \in Joins |-> 0]
    /\ containerInfo = [j \in Joins |->
            IF j = 1 THEN Info("alreadyExists", OtherContainerId, FALSE, 0)
            ELSE NoInfo]
    /\ firstBranch = [j \in Joins |-> IF j = 1 THEN "open" ELSE "none"]
    /\ hasHook = [j \in Joins |-> FALSE]
    /\ containers = [j \in Joins |-> << >>]
    /\ result = [j \in Joins |->
            IF j = 1
            THEN [created |-> FALSE, container |-> OtherContainerId, via |-> "open"]
            ELSE NoResult]
    /\ error = [j \in Joins |-> NoError]
    /\ lookups = [j \in Joins |-> IF j = 1 THEN 1 ELSE 0]
    /\ waits = [j \in Joins |-> 0]
    /\ lostRaces = [j \in Joins |-> 0]

\* Token requests to one TeamsFluidTokenProvider.
InitToken == InitRoles

SpecToken == InitToken /\ [][TokenNext]_vars

\* Joins of a client configured for local testing.
InitLocal == JoinInitIn("any", NumJoins, TRUE) /\ RoleInit /\ TokenInit /\ ConnInit(FALSE)

NextLocal ==
    \E j \in Joins :
        \/ \E hook \in BOOLEAN : JoinContainer(j, hook)
        \/ \E id \in LocalTestContainerIds : GetLocalTestContainerIdReturns(j, id)
        \/ GetContainerReturns(j)
        \/ CreateContainerReturns(j)
        \/ AttachReturns(j)
        \/ SetLocalTestContainerIdReturns(j)
        \/ CollaboratorFails(j)

SpecLocal == InitLocal /\ [][NextLocal]_vars

\* 'connected' events after a join, with and without a role verifier.
InitConnected == Joined /\ RoleInit /\ TokenInit /\ \E active \in BOOLEAN : ConnInit(active)

NextConnected ==
    \/ \E h \in Handlers, connections \in ConnectionLists : Connected(h, connections)
    \/ \E h \in Handlers : HandlerResumes(h)
    \/ \E r \in 1 .. MaxRuns, res \in Responses : ApiReturns(r, res)
    \/ \E r \in 1 .. MaxRuns : PollAgain(r)

SpecConnected == InitConnected /\ [][NextConnected]_vars

\* ------------------------------------------------------------------------
\* Properties of joinContainer
\* ------------------------------------------------------------------------

Count(log, ev) == Cardinality({ k \in 1 .. Len(log) : log[k] = ev })

\* Position of the first ev in log, 0 when there is none.
Pos(log, ev) ==
    IF \E k \in 1 .. Len(log) : log[k] = ev
    THEN CHOOSE k \in 1 .. Len(log) :
            log[k] = ev /\ \A m \in 1 .. k - 1 : log[m] # ev
    ELSE 0

Started == { j \in Joins : pc[j] \notin {"idle", "unused"} }

Ended(j) == pc[j] \in {"done", "failed"}

Outcome(j) ==
    CASE pc[j] = "done" /\ result[j].created -> "created"
      [] pc[j] = "done" /\ ~result[j].created -> "attached"
      [] pc[j] = "failed" /\ error[j] = Timeout -> "timeout"
      [] pc[j] = "failed" /\ error[j] # Timeout -> "error"
      [] OTHER -> "running"

RetryInfo(info) ==
    info.received /\ ~info.shouldCreate /\ info.containerId = Undefined
                  /\ info.retryAfter > 0

ZeroInfo(info) ==
    info.received /\ ~info.shouldCreate /\ info.containerId = Undefined
                  /\ info.retryAfter = 0

\* Every container the call created has been disposed exactly once.
AllDisposedOnce(j) ==
    \A n \in 1 .. Len(containers[j]) : Count(containers[j][n], "dispose") = 1

\* C1: when exactly two calls join a session served by the set-if-absent
\* service, both were told shouldCreate by their first lookup and both have
\* returned, then exactly one of them returned created = true, both returned
\* the same container ID, and the other one created a container and disposed
\* it exactly once.
C1_TwoJoinsOneCreator ==
    \A j, k \in Joins :
        ( /\ j # k
          /\ Started = {j, k}
          /\ firstBranch[j] = "create" /\ firstBranch[k] = "create"
          /\ pc[j] = "done" /\ pc[k] = "done" )
        => /\ result[j].created # result[k].created
           /\ result[j].container = result[k].container
           /\ \A l \in {j, k} :
                ~result[l].created =>
                    /\ Len(containers[l]) = 1
                    /\ AllDisposedOnce(l)

C1_Witness ==
    \E j, k \in Joins :
        /\ j # k
        /\ Started = {j, k}
        /\ firstBranch[j] = "create" /\ firstBranch[k] = "create"
        /\ pc[j] = "done" /\ pc[k] = "done"
        /\ result[j].created /\ lostRaces[k] = 1

\* C2: against the set-if-absent service every call that has returned holds
\* the container whose ID is the session's mapping, so no two calls that
\* returned hold different containers.
C2_OneAgreedContainer ==
    \A j \in Joins :
        pc[j] = "done" =>
            /\ mapping # Undefined
            /\ result[j].container = mapping
            /\ \A k \in Joins :
                pc[k] = "done" => result[k].container = result[j].container

C2_Witness ==
    /\ \A j \in Joins : pc[j] = "done"
    /\ \E j \in Joins : lostRaces[j] = 1
    /\ \E j \in Joins : waits[j] > 0

\* C3: against the set-if-absent service the mapping is written once: at most
\* one ID is ever accepted and the mapping is that ID from then on, the ID of
\* a container whose publish was rejected is never the mapping, and at most
\* one call returns created = true.
C3_MappingSetOnce ==
    /\ Cardinality(accepted) <= 1
    /\ (mapping = Undefined) <=> (accepted = {})
    /\ mapping # Undefined => accepted = {mapping}
    /\ \A j \in Joins : \A n \in 1 .. Len(containers[j]) :
          Count(containers[j][n], "dispose") > 0 =>
              mapping # NewContainerId(j, n)
    /\ Cardinality({ j \in Joins : pc[j] = "done" /\ result[j].created }) <= 1

C3_Witness ==
    /\ mapping # Undefined
    /\ \E j \in Joins : pc[j] = "done" /\ result[j].created
    /\ \E j \in Joins : lostRaces[j] = 1 /\ pc[j] = "done"

\* The container with this ID was created and attached by call j and its ID
\* was accepted by setFluidContainerId.
OwnAccepted(j, id) ==
    \E n \in 1 .. Len(containers[j]) :
        /\ id = NewContainerId(j, n)
        /\ Count(containers[j][n], "create") = 1
        /\ Count(containers[j][n], "attach") = 1
        /\ Count(containers[j][n], "publish") = 1
        /\ id \in accepted

\* C4: a call that returned has created = true exactly when the container it
\* returned is one it created and attached itself and whose ID was accepted;
\* a container obtained by opening an existing ID has created = false.
C4_CreatedIffWon ==
    \A j \in Joins :
        pc[j] = "done" =>
            /\ result[j].created <=> OwnAccepted(j, result[j].container)
            /\ result[j].via = "open" => ~result[j].created

C4_Witness ==
    \E j \in Joins :
        /\ pc[j] = "done" /\ result[j].via = "open" /\ ~result[j].created
        /\ lostRaces[j] > 0

\* Every lookup of the call so far was answered shouldCreate = false, no
\* containerId, retryAfter > 0 (each earlier answer led to a wait).
OnlyRetryAnswers(j) ==
    /\ RetryInfo(containerInfo[j])
    /\ Len(containers[j]) = 0
    /\ error[j] # Upstream

\* C5: a call whose lookups were all answered "retry" fails with the timeout
\* error after exactly maxContainerLookupTries lookups.
C5_ExactlyMaxLookups ==
    \A j \in Joins :
        (OnlyRetryAnswers(j) /\ Ended(j)) =>
            /\ Outcome(j) = "timeout"
            /\ lookups[j] = maxContainerLookupTries

\* C6: the lookups and creations of a call are bounded by
\* maxContainerLookupTries: the try count never exceeds it, whatever the
\* service answers.
C6_BoundedByMaxTries ==
    \A j \in Joins :
        /\ tries[j] <= maxContainerLookupTries
        /\ lookups[j] <= maxContainerLookupTries + 1

\* C7: in the step that delivers a lookup answer with shouldCreate = false,
\* no containerId and retryAfter = 0 the call fails with the timeout error,
\* without a wait, a lookup, a creation or an attach; and nothing of the call
\* changes afterwards.
C7_ZeroRetryFailsAtOnce ==
    [][ \A j \in Joins :
          /\ (ZeroInfo(containerInfo'[j]) /\ ~ZeroInfo(containerInfo[j])) =>
                /\ pc'[j] = "failed" /\ error'[j] = Timeout
                /\ waits'[j] = waits[j] /\ lookups'[j] = lookups[j]
                /\ containers'[j] = containers[j] /\ tries'[j] = tries[j]
          /\ ZeroInfo(containerInfo[j]) =>
                /\ pc'[j] = pc[j] /\ error'[j] = error[j]
                /\ waits'[j] = waits[j] /\ lookups'[j] = lookups[j]
                /\ containers'[j] = containers[j] /\ tries'[j] = tries[j] ]_vars

C7_Witness ==
    \E j \in Joins :
        /\ ZeroInfo(containerInfo[j]) /\ pc[j] = "failed"
        /\ tries[j] > 0 /\ tries[j] < maxContainerLookupTries

\* C8: the log of every created container starts with create, then the hook
\* (exactly once when one was supplied, never otherwise), then attach, then
\* the publish of its ID.
C8_HookOnceBeforeAttach ==
    \A j \in Joins : \A n \in 1 .. Len(containers[j]) :
        LET log == containers[j][n] IN
        /\ log[1] = "create" /\ Count(log, "create") = 1
        /\ Count(log, "init") = (IF hasHook[j] THEN 1 ELSE 0)
        /\ Count(log, "attach") = 1
        /\ hasHook[j] => Pos(log, "init") < Pos(log, "attach")
        /\ Pos(log, "create") < Pos(log, "attach")
        /\ Count(log, "publish") <= 1
        /\ Count(log, "publish") = 1 => Pos(log, "attach") < Pos(log, "publish")

C8_Witness ==
    \E j \in Joins :
        /\ hasHook[j] /\ Len(containers[j]) = 2
        /\ Count(containers[j][2], "publish") = 1

\* The part of C9 about the rejected container: in the step in which a
\* publish is rejected the container is disposed, the try count grows by one
\* and the call is looking up again; while a lookup is outstanding every
\* container of the call has been disposed exactly once.
LostRaceUnwinds ==
    /\ [][ \A j \in Joins :
             lostRaces'[j] # lostRaces[j] =>
                /\ lostRaces'[j] = lostRaces[j] + 1
                /\ pc[j] = "publishing" /\ pc'[j] = "lookup"
                /\ tries'[j] = tries[j] + 1
                /\ lookups'[j] = lookups[j] + 1
                /\ Count(containers[j][Current(j)], "dispose") = 0
                /\ Count(containers'[j][Current(j)], "dispose") = 1 ]_vars
    /\ [](\A j \in Joins :
            /\ pc[j] = "lookup" => AllDisposedOnce(j)
            /\ lostRaces[j] =
                 Cardinality({ n \in 1 .. Len(containers[j]) :
                                 Count(containers[j][n], "dispose") > 0 }))

\* C9 as stated: the above, and a call that lost a race ends only by
\* attaching, creating or the timeout error.
C9_LostRaceAbsorbed ==
    /\ LostRaceUnwinds
    /\ [](\A j \in Joins :
            (lostRaces[j] > 0 /\ Ended(j)) =>
                Outcome(j) \in {"attached", "created", "timeout"})

\* C9 as amended: a call that lost a race ends only by attaching, creating,
\* the timeout error, or an error raised by a collaborator call.
C9_LostRaceAbsorbedOrUpstream ==
    /\ LostRaceUnwinds
    /\ [](\A j \in Joins :
            (lostRaces[j] > 0 /\ Ended(j)) =>
                \/ Outcome(j) \in {"attached", "created", "timeout"}
                \/ error[j] = Upstream /\ result[j] = NoResult)

C9_Witness ==
    \E j \in Joins :
        /\ lostRaces[j] = 2 /\ pc[j] = "failed" /\ error[j] = Timeout

\* ------------------------------------------------------------------------
\* Properties of RoleVerifier
\* ------------------------------------------------------------------------

CallSettled(c) == calls[c].state \in {"resolved", "rejected"}

\* C10: a registerClientId or getClientRoles call made while a resolution for
\* its clientId is pending joins that resolution instead of starting the
\* polling producer again (so at most one run per cache and clientId is
\* pending), and all calls that joined one resolution get its outcome: the
\* same role array or the same error.
C10_SingleFlight ==
    /\ \A kind \in CacheKinds, id \in ClientIds :
          Cardinality(PendingRuns(kind, id)) <= 1
    /\ \A c \in Calls :
          (calls[c].state # "idle" /\ calls[c].pendingAtCall # {}) =>
              /\ calls[c].pendingAtCall = {calls[c].run}
              /\ CallSettled(c) =>
                    /\ calls[c].state = runs[calls[c].run].state
                    /\ calls[c].value = runs[calls[c].run].value
                    /\ calls[c].error = runs[calls[c].run].error
    /\ \A c, d \in Calls :
          ( /\ calls[c].run # 0 /\ calls[c].run = calls[d].run
            /\ CallSettled(c) ) =>
              /\ calls[d].state = calls[c].state
              /\ calls[d].value = calls[c].value
              /\ calls[d].error = calls[c].error

C10_Witness ==
    \E c, d \in Calls :
        /\ c # d
        /\ calls[c].op = "register" /\ calls[d].op = "register"
        /\ calls[c].run # 0 /\ calls[c].run = calls[d].run
        /\ calls[d].pendingAtCall = {calls[c].run}
        /\ runs[calls[c].run].attempts > 1
        /\ calls[c].state = "resolved" /\ calls[d].state = "resolved"
        /\ Len(runs) = 1

\* The cache a call of `op` goes through.
KindOf(op) == IF op = "register" THEN "register" ELSE "get"

RoleCall(c) == calls[c].state # "idle" /\ calls[c].run # 0

\* The call was served from the cache: it neither started its run nor found it
\* pending.
ServedFromCache(c) ==
    /\ RoleCall(c)
    /\ ~calls[c].fresh
    /\ calls[c].run \notin calls[c].pendingAtCall

\* The runs for the key of call c that resolved before c's own run.
ResolvedEarlier(c) ==
    { r \in 1 .. Len(runs) :
        /\ r < calls[c].run
        /\ runs[r].kind = KindOf(calls[c].op)
        /\ runs[r].key = calls[c].clientId
        /\ runs[r].state = "resolved" }

\* C11: once getClientRoles(clientId) has resolved, a later getClientRoles for
\* that clientId made less than one hour after the resolution is answered with
\* the stored roles and no call to the role-lookup collaborator; a call made
\* once the hour has elapsed is not answered from the store: the collaborator
\* is called again.
C11_ServedForOneHour ==
    \A c \in Calls :
        (RoleCall(c) /\ calls[c].op = "getRoles") =>
            /\ ServedFromCache(c) =>
                  /\ runs[calls[c].run].state = "resolved"
                  /\ calls[c].calledAt < runs[calls[c].run].settledAt + 60 * 60 * 1000
                  /\ calls[c].state = "resolved"
                  /\ calls[c].value = runs[calls[c].run].value
            /\ \A r \in ResolvedEarlier(c) :
                  calls[c].calledAt >= runs[r].settledAt + 60 * 60 * 1000

C11_Witness ==
    \E c, d \in Calls :
        /\ calls[c].op = "getRoles" /\ calls[c].fresh
        /\ runs[calls[c].run].attempts > 1
        /\ calls[d].op = "getRoles" /\ ServedFromCache(d)
        /\ calls[d].run = calls[c].run
        /\ calls[d].calledAt = runs[calls[c].run].settledAt + TickMs
        /\ Len(runs) = 1
        /\ now >= calls[d].calledAt + TickMs

\* C12: a failed resolution is never kept: no cache entry refers to a rejected
\* run, no call is answered from the cache with a failure, and once the latest
\* run for a clientId has failed its entry is empty, so that the next call for
\* that clientId starts a new polling run.
C12_FailureNotCached ==
    /\ \A kind \in CacheKinds, id \in ClientIds :
          cache[kind][id].state # "empty" =>
              runs[cache[kind][id].run].state # "rejected"
    /\ \A c \in Calls :
          ServedFromCache(c) =>
              /\ runs[calls[c].run].state = "resolved"
              /\ calls[c].state = "resolved"
    /\ \A kind \in CacheKinds, id \in ClientIds :
          LET mine == { r \in 1 .. Len(runs) :
                          runs[r].kind = kind /\ runs[r].key = id }
          IN
          (mine # {} /\ runs[CHOOSE r \in mine : \A q \in mine : q <= r].state = "rejected")
              => cache[kind][id] = EmptyEntry

C12_Witness ==
    \E c, d \in Calls :
        /\ calls[c].op = calls[d].op
        /\ calls[c].clientId = calls[d].clientId
        /\ calls[c].state = "rejected"
        /\ calls[c].error = TimeoutError(KindOf(calls[c].op))
        /\ calls[d].fresh
        /\ calls[d].run > calls[c].run
        /\ calls[d].state = "resolved"

\* C13: one resolution calls the operation at once and then at most once more
\* per entry of the schedule 100, 200, 200, 400, 600, each call after the wait
\* that precedes it, the waits taken in schedule order; a resolution that got
\* its first array from the k-th call made exactly k calls and k - 1 waits,
\* and one that never got an array made exactly 6 calls and 5 waits and ends
\* with the timeout error.
C13_PollingSchedule ==
    \A r \in 1 .. Len(runs) :
        LET run == runs[r] IN
        /\ run.attempts \in 1 .. 6
        /\ run.waitsDone = run.attempts - 1
        /\ Len(run.waited) = IF run.state = "waiting" THEN run.attempts
                             ELSE run.attempts - 1
        /\ run.waited = SubSeq(<< 100, 200, 200, 400, 600 >>, 1, Len(run.waited))
        /\ run.state = "resolved" => run.value.isArray
        /\ run.error = TimeoutError(run.kind) <=>
              /\ run.state = "rejected"
              /\ run.attempts = 6
              /\ Len(run.waited) = 5
              /\ ~ApiResult(run.kind, [status |-> run.lastStatus,
                                       userRoles |-> NotAnArray]).throws

C13_Witness ==
    \E r, q \in 1 .. Len(runs) :
        /\ runs[r].state = "rejected"
        /\ runs[r].error = TimeoutError(runs[r].kind)
        /\ runs[r].attempts = 6
        /\ runs[q].state = "resolved"
        /\ runs[q].attempts = 3
        /\ runs[q].waited = << 100, 200 >>

\* C14: within a getClientRoles resolution a response with a status of 400 or
\* more other than 404 ends the resolution at that call: the error reaches
\* every caller, and no wait or further call follows; a 404 response or a
\* response without a role array is never an error: it is followed by the next
\* wait, or after the sixth call by the timeout.
C14_ErrorsNotRetried ==
    \A r \in 1 .. Len(runs) :
        LET run == runs[r] IN
        (run.kind = "get" /\ run.lastStatus # 0) =>
            /\ (run.lastStatus >= 400 /\ run.lastStatus # 404) =>
                  /\ run.state = "rejected"
                  /\ run.error = ApiError
                  /\ Len(run.waited) = run.attempts - 1
                  /\ \A c \in Calls :
                        calls[c].run = r =>
                            calls[c].state = "rejected" /\ calls[c].error = ApiError
            /\ run.error = ApiError => (run.lastStatus >= 400 /\ run.lastStatus # 404)
            /\ (run.lastStatus = 404 \/ (run.lastStatus < 400 /\ run.state # "resolved")) =>
                  \/ run.state \in {"waiting", "calling"} /\ run.attempts <= 6
                  \/ /\ run.state = "rejected"
                     /\ run.error = GetTimeout
                     /\ run.attempts = 6

C14_Witness ==
    \E r, q \in 1 .. Len(runs) :
        /\ runs[r].kind = "get" /\ runs[q].kind = "get"
        /\ runs[r].lastStatus = 404 /\ runs[r].state = "calling"
        /\ runs[q].lastStatus = 500 /\ runs[q].state = "rejected"
        /\ runs[q].attempts = 2
        /\ \E c \in Calls : calls[c].run = q /\ calls[c].error = ApiError

\* C20: the registration cache and the role-lookup cache are separate and keyed
\* by clientId: a call only ever awaits, or is answered from, a run of its own
\* operation for its own clientId, and every cache entry belongs to a run of
\* its own cache and key.
C20_CachesIndependent ==
    /\ \A c \in Calls :
          RoleCall(c) =>
              /\ runs[calls[c].run].kind = KindOf(calls[c].op)
              /\ runs[calls[c].run].key = calls[c].clientId
    /\ \A kind \in CacheKinds, id \in ClientIds :
          cache[kind][id].state # "empty" =>
              /\ runs[cache[kind][id].run].kind = kind
              /\ runs[cache[kind][id].run].key = id

C20_Witness ==
    \E c, d \in Calls :
        /\ calls[c].op = "register" /\ calls[d].op = "getRoles"
        /\ calls[c].clientId = calls[d].clientId
        /\ calls[c].state = "resolved"
        /\ cache["register"][calls[c].clientId].state = "ready"
        /\ calls[d].calledAt = 0
        /\ calls[d].run > calls[c].run
        /\ calls[d].fresh
        /\ calls[d].state = "resolved"
        /\ calls[d].value # calls[c].value

\* allowedRoles is absent or holds no role.
NoRolesAsked(allowedRoles) ==
    ~allowedRoles.isArray \/ allowedRoles.roles = << >>

Range(seq) == { seq[i] : i \in 1 .. Len(seq) }

\* C15: verifyRolesAllowed with a clientId and with allowedRoles absent or
\* empty answers true in the step of the call itself, and that step starts no
\* polling run and leaves both caches as they were.
C15_NoRolesAskedAllowsAll ==
    [][ \A c \in Calls :
            ( /\ calls[c].state = "idle"
              /\ calls'[c].op = "verify"
              /\ calls'[c].clientId # NoClientId
              /\ NoRolesAsked(calls'[c].allowedRoles) ) =>
                /\ calls'[c].state = "resolved"
                /\ calls'[c].verdict
                /\ calls'[c].run = 0
                /\ cache' = cache
                /\ runs' = runs ]_vars

C15_Witness ==
    \E c, d \in Calls :
        /\ calls[c].op = "verify" /\ calls[d].op = "verify"
        /\ calls[c].clientId = "a" /\ calls[d].clientId = "a"
        /\ calls[c].allowedRoles = RoleArray(<< >>)
        /\ calls[d].allowedRoles = NotAnArray
        /\ calls[c].state = "resolved" /\ calls[c].verdict
        /\ calls[d].state = "resolved" /\ calls[d].verdict
        /\ runs = << >>
        /\ cache["get"]["a"] = EmptyEntry

\* C16: verifyRolesAllowed with a clientId and at least one allowed role
\* answers with the roles that getClientRoles resolved for that clientId: true
\* exactly when some allowed role is among them, so false when they are empty.
C16_AllowedIffRoleHeld ==
    \A c \in Calls :
        ( /\ calls[c].op = "verify"
          /\ calls[c].state = "resolved"
          /\ ~NoRolesAsked(calls[c].allowedRoles) ) =>
            /\ calls[c].run # 0
            /\ runs[calls[c].run].kind = "get"
            /\ runs[calls[c].run].key = calls[c].clientId
            /\ runs[calls[c].run].state = "resolved"
            /\ calls[c].value = runs[calls[c].run].value
            /\ calls[c].verdict <=>
                  (Range(calls[c].allowedRoles.roles)
                      \cap Range(calls[c].value.roles) # {})

C16_Witness ==
    \E c, d \in Calls :
        /\ calls[c].op = "verify" /\ calls[d].op = "verify"
        /\ calls[c].state = "resolved" /\ calls[d].state = "resolved"
        /\ calls[c].allowedRoles = RoleArray(<< "Presenter", "Organizer" >>)
        /\ calls[c].value = RoleArray(<< "Organizer" >>)
        /\ calls[c].verdict
        /\ ~NoRolesAsked(calls[d].allowedRoles)
        /\ calls[d].value = RoleArray(<< >>)
        /\ ~calls[d].verdict

\* C17: getClientRoles and verifyRolesAllowed without a clientId fail with
\* their invalid-argument error, whatever allowedRoles holds, and nothing is
\* looked up or stored for them: no polling run and no cache entry has the
\* missing clientId as its key.
C17_ClientIdRequired ==
    /\ \A c \in Calls :
          ( /\ calls[c].state # "idle"
            /\ calls[c].op \in {"getRoles", "verify"}
            /\ calls[c].clientId = NoClientId ) =>
              /\ calls[c].state = "rejected"
              /\ calls[c].error = IF calls[c].op = "verify"
                                  THEN InvalidVerifyRolesAllowed
                                  ELSE InvalidGetClientRoles
              /\ calls[c].run = 0
    /\ \A r \in 1 .. Len(runs) : runs[r].key # NoClientId
    /\ \A kind \in CacheKinds : cache[kind][NoClientId] = EmptyEntry

C17_Witness ==
    \E c, d \in Calls :
        /\ calls[c].op = "getRoles" /\ calls[c].clientId = NoClientId
        /\ calls[c].state = "rejected"
        /\ calls[d].op = "verify" /\ calls[d].clientId = NoClientId
        /\ calls[d].allowedRoles = RoleArray(<< >>)
        /\ calls[d].state = "rejected"
        /\ runs = << >>

HandlerEnded(h) == handlers[h].state \in {"done", "failed"}

\* C18: with a role verifier, a 'connected' handler that has ended has invoked
\* registerClientId for every connection identifier the audience reported to
\* it, also when the registration of an earlier identifier failed.
C18_EveryConnectionRegistered ==
    \A h \in Handlers :
        (roleVerifier /\ HandlerEnded(h)) =>
            Range(handlers[h].connections) \subseteq handlers[h].invoked

\* C19: while a successful registration of a connection identifier is held,
\* no step (a 'connected' event, a handler going on, a reply) starts a
\* registration run for that identifier or makes one call the registration
\* collaborator again.
C19_RegisteredOnce ==
    [][ \A id \in ClientIds :
            Live(cache["register"][id]) =>
                /\ \A r \in 1 .. Len(runs) :
                      (runs[r].kind = "register" /\ runs[r].key = id) =>
                          runs'[r] = runs[r]
                /\ \A r \in (Len(runs) + 1) .. Len(runs') :
                      ~(runs'[r].kind = "register" /\ runs'[r].key = id) ]_vars

C19_Witness ==
    /\ handlers[1].state = "awaiting"
    /\ handlers[1].connections = << "a", "b" >>
    /\ handlers[1].i = 2
    /\ handlers[2].state = "done"
    /\ handlers[2].connections = << "a" >>
    /\ handlers[2].invoked = {"a"}
    /\ calls[HandlerCall(2)].state = "resolved"
    /\ ServedFromCache(HandlerCall(2))
    /\ Len(runs) = 2
    /\ runs[1].key = "a" /\ runs[1].state = "resolved"
    /\ runs[2].key = "b" /\ runs[2].state = "calling"

\* C21: a container is created only in answer to a lookup that reported
\* shouldCreate (so a call whose lookups never report it creates, initializes,
\* attaches, publishes and disposes nothing); a lookup that names a container
\* and does not report shouldCreate is followed by one open of exactly that
\* ID, and the call returns it with created = false and does nothing more.
C21_NoCreateUnlessTold ==
    [][ \A j \in Joins :
          /\ (pc'[j] = "creating" /\ pc[j] # "creating") =>
                pc[j] = "lookup" /\ containerInfo'[j].shouldCreate
          /\ Len(containers'[j]) > Len(containers[j]) =>
                pc[j] = "creating" /\ containerInfo[j].shouldCreate
          /\ (containers'[j] # containers[j] /\ Len(containers[j]) = 0) =>
                containerInfo[j].shouldCreate
          /\ (pc'[j] = "opening" /\ pc[j] # "opening") =>
                /\ pc[j] = "lookup"
                /\ ~containerInfo'[j].shouldCreate
                /\ containerInfo'[j].containerId # Undefined
          /\ pc[j] = "opening" =>
                /\ pc'[j] \in {"opening", "done", "failed"}
                /\ containerInfo'[j] = containerInfo[j]
                /\ containers'[j] = containers[j]
                /\ lookups'[j] = lookups[j]
          /\ (pc[j] = "opening" /\ pc'[j] = "done") =>
                result'[j] = [created |-> FALSE,
                              container |-> containerInfo[j].containerId,
                              via |-> "open"]
          /\ Ended(j) => (pc'[j] = pc[j] /\ result'[j] = result[j]) ]_vars

C21_Witness ==
    \E j \in Joins :
        /\ pc[j] = "done"
        /\ result[j] = [created |-> FALSE, container |-> OtherContainerId,
                        via |-> "open"]
        /\ containers[j] = << >>
        /\ waits[j] = 2
        /\ lookups[j] = 3

\* The containers of call j that are neither disposed nor returned.
InUse(j) ==
    { n \in 1 .. Len(containers[j]) :
        /\ Count(containers[j][n], "dispose") = 0
        /\ ~(pc[j] = "done" /\ result[j].created
                /\ result[j].container = NewContainerId(j, n)) }

\* C22: the steps of one call are sequential: at most one container it created
\* is in use at any time, and that only while the call attaches or publishes
\* it (or after the call has ended); a lookup, a creation or an open is under
\* way only when every container created before has been disposed, and every
\* lookup but the first follows a completed wait or a lost race.
C22_OneStepAtATime ==
    \A j \in Joins :
        /\ Cardinality(InUse(j)) <= 1
        /\ \A n \in 1 .. Len(containers[j]) - 1 :
              Count(containers[j][n], "dispose") = 1
        /\ pc[j] \in {"lookup", "waiting", "creating", "opening"} => InUse(j) = {}
        /\ pc[j] \in {"attaching", "publishing"} => InUse(j) = {Current(j)}
        /\ pc[j] \notin {"idle", "unused"} =>
              /\ lookups[j] = tries[j] + 1
              /\ Len(containers[j]) <= lostRaces[j] + 1

C22_Witness ==
    \E j \in Joins :
        /\ pc[j] = "publishing"
        /\ Len(containers[j]) = 2
        /\ InUse(j) = {2}
        /\ waits[j] = 1

\* C23: when a call has ended, by success, by the timeout or by the error of a
\* collaborator, every container it created has been disposed or is the one
\* it returned with created = true.
C23_NothingLeftBehind ==
    \A j \in Joins : Ended(j) => InUse(j) = {}

\* C24: the try count of a call is the number of its completed waits plus the
\* number of its lost races; a wait is under way only with a try count below
\* maxContainerLookupTries, so a call waits at most 3 times and its waits and
\* the lost races before them together number at most 3.
C24_TriesCountWaitsAndLostRaces ==
    \A j \in Joins :
        /\ tries[j] = waits[j] - (IF pc[j] = "waiting" THEN 1 ELSE 0) + lostRaces[j]
        /\ pc[j] = "waiting" => tries[j] < 3
        /\ waits[j] <= 3
        /\ pc[j] = "waiting" => waits[j] + lostRaces[j] <= 3

C24_Witness ==
    \E j \in Joins :
        /\ pc[j] = "failed" /\ error[j] = Timeout
        /\ lostRaces[j] = 1
        /\ waits[j] = 2
        /\ tries[j] = 3
        /\ RetryInfo(containerInfo[j])

\* C25: in local testing every lookup answer has retryAfter = 0 and exactly
\* one of shouldCreate and a containerId, and every publish is accepted; so a
\* call never waits, never disposes a container, never loses a race, never
\* fails with the timeout error and sends no request to TeamsLiveAPI, and a
\* call that returned has created = true exactly when its lookup got no ID.
C25_LocalTestingJoins ==
    isTesting =>
        \A j \in Joins :
            /\ containerInfo[j].received =>
                  /\ containerInfo[j].retryAfter = 0
                  /\ containerInfo[j].shouldCreate <=>
                        (containerInfo[j].containerId = Undefined)
            /\ waits[j] = 0 /\ pc[j] # "waiting"
            /\ lostRaces[j] = 0
            /\ \A n \in 1 .. Len(containers[j]) :
                  Count(containers[j][n], "dispose") = 0
            /\ error[j] # Timeout
            /\ apiCalls[j] = 0
            /\ lookups[j] <= 1
            /\ pc[j] = "done" =>
                  (result[j].created <=> (containerInfo[j].containerId = Undefined))

C25_Witness ==
    /\ isTesting
    /\ \E j, k \in Joins :
          /\ pc[j] = "done" /\ result[j].created
          /\ containerInfo[j].containerId = Undefined
          /\ pc[k] = "done" /\ ~result[k].created
          /\ result[k].container = result[j].container
          /\ lookups[j] = 1 /\ lookups[k] = 1

\* The call asks, without refresh, for the tenant and document of the last
\* call that resolved before it.
SameAsLast(call) ==
    /\ ~call.refresh
    /\ call.tenantId = call.prev.tenantId
    /\ call.documentId = call.prev.documentId

\* C26: a token call that follows a resolved call, no two calls so far having
\* overlapped, is answered with the held token, fromCache = true and no
\* getFluidToken request if it asks without refresh for the tenantId and
\* documentId of the last call that resolved; otherwise it requests a new
\* token and answers with fromCache = false.
C26_HeldTokenIffSameArguments ==
    \A f \in Fetches :
        LET call == fetches[f] IN
        (call.state # "idle" /\ call.alone /\ call.prev # NoSuccess) =>
            IF SameAsLast(call)
            THEN /\ call.state = "resolved"
                 /\ call.fromCache
                 /\ ~call.fetched
                 /\ call.jwt = call.prev.jwt
            ELSE /\ call.fetched
                 /\ call.state = "resolved" => ~call.fromCache

====
